---- MODULE Spec2Model ----
(***************************************************************************)
(* A model of the ClickHouse dialector for gorm (src/clickhouse.go):       *)
(*   - the DELETE / UPDATE clause builders and the WHERE rewriting they    *)
(*     do (modifyStatementWhereConds, modifyExprs);                        *)
(*   - Dialector.Initialize and its version check;                         *)
(*   - Dialector.DataTypeOf;                                               *)
(*   - Dialector.QuoteTo.                                                  *)
(* Each component has its own specification over its own variables; the    *)
(* other variables keep their initial value.                               *)
(***************************************************************************)
EXTENDS Integers, Sequences, FiniteSets, TLC

VARIABLES
    heap,      \* backing arrays of the []clause.Expression slices: id -> slots
    objs,      \* boxed leaf predicates (the values the interface slots point to)
    hasFrom,   \* whether stmt.Clauses holds a "FROM" clause
    whereKind, \* what stmt.Clauses["WHERE"] is: absent, a clause.Where, another expression
    pc,        \* position of the statement: "new" or "built"
    key,       \* the ClauseBuilders key the host invoked ("" before)
    out,       \* SQL text written to the builder, as a sequence of writes
    heap0,     \* heap as the host built it (history)
    objs0      \* objs as the host built them (history)

rwVars == <<heap, objs, hasFrom, whereKind, pc, key, out, heap0, objs0>>

VARIABLES
    config,    \* the *Config the Dialector points to
    config0,   \* the configuration as passed in (history)
    openFails, \* whether sql.Open returns an error
    queryFails,\* whether the "SELECT version()" query returns an error
    vs,        \* the version string the server answers, as a sequence of bytes
    connPool,  \* db.ConnPool: "" (unset), "Conn" (the configured one) or "dbb"
    builders,  \* the keys of db.ClauseBuilders
    ret        \* how Initialize ended: "" (not called), "nil", "open error",
               \* "query error" or "panic"

initVars == <<config, config0, openFails, queryFails, vs, connPool, builders, ret>>

VARIABLES
    field,     \* the *schema.Field given to DataTypeOf
    field0,    \* the field before the call (history)
    DisableDatetimePrecision, \* the Config field DataTypeOf reads
    sqlType,   \* the string DataTypeOf returned
    typed      \* whether DataTypeOf has been called

dtVars == <<field, field0, DisableDatetimePrecision, sqlType, typed>>

VARIABLES
    str,       \* the identifier given to QuoteTo, as a sequence of bytes
    writer,    \* the bytes written to the clause.Writer
    quoted     \* whether QuoteTo has been called

quoteVars == <<str, writer, quoted>>

vars == <<rwVars, initVars, dtVars, quoteVars>>

-----------------------------------------------------------------------------
(* Bounds of the statement trees.                                          *)

\* total number of slots over all child lists of the heap
MaxSlots == 4

\* the child lists: list 1 is the Exprs of the statement's clause.Where
ArrayIds == {1, 2, 3}

WhereRoot == 1

-----------------------------------------------------------------------------
(* Predicate values.                                                       *)

\* A boxed leaf: kind is its reflect.Kind ("struct", or "ptr" for a pointer to a
\* struct); ft tells what its Column field is: "absent" (no such field, as in
\* clause.Expr), "nil" (a nil interface), "Column" (a clause.Column) or "string";
\* table and name are the column's; val is the predicate's value.
Leaf(kind, ft, table, name, val) ==
    [kind |-> kind, ft |-> ft, table |-> table, name |-> name, val |-> val]

QualifiedLeaf == Leaf("struct", "Column", "t", "a", 1)

LeafKinds == {"qualified", "unqualified", "expr", "nilcol", "strcol", "ptr"}

LeafOfKind(k) ==
    CASE k = "qualified"   -> Leaf("struct", "Column", "u", "b", 2)
      [] k = "unqualified" -> Leaf("struct", "Column", "", "b", 2)
      [] k = "expr"        -> Leaf("struct", "absent", "", "t.b = 2", 2)
      [] k = "nilcol"      -> Leaf("struct", "nil", "", "", 2)
      [] k = "strcol"      -> Leaf("struct", "string", "", "t.b", 2)
      [] k = "ptr"         -> Leaf("ptr", "Column", "t", "b", 2)

\* A slot of a child list: an interface value. tag is its dynamic type, ref the
\* child list of an AndConditions / OrConditions / NotConditions, or the box of
\* a leaf.
Slot(tag, ref) == [tag |-> tag, ref |-> ref]

Tags == {"And", "Or", "Not"}

\* the slots list a may hold: the two leaves, and nodes over later lists, the
\* nodes over list b being of type tg[b]
SlotsOf(a, tg) ==
    {Slot("Leaf", o) : o \in {1, 2}}
        \cup {Slot(tg[b], b) : b \in {c \in ArrayIds : c > a}}

RECURSIVE ListsOf(_, _)
\* the lists over S of length n
ListsOf(S, n) ==
    IF n = 0 THEN {<<>>}
    ELSE {Append(l, s) : l \in ListsOf(S, n - 1), s \in S}

RECURSIVE HeapsFrom(_, _, _)
\* the heaps of lists a, a+1, ... holding at most budget slots in all
HeapsFrom(a, budget, tg) ==
    IF a \notin ArrayIds THEN {<<>>}
    ELSE UNION {
           UNION { {<<l>> \o rest : rest \in HeapsFrom(a + 1, budget - n, tg)}
                     : l \in ListsOf(SlotsOf(a, tg), n) }
             : n \in (IF a = WhereRoot THEN 1 ELSE 0)..budget }

-----------------------------------------------------------------------------
(* modifyExprs                                                             *)

\* the type switch without its NotConditions case
CompositeTagsNoNot == {"And", "Or"}

\* the dynamic types the type switch recurses into
CompositeTags == {"And", "Not", "Or"}

\* whether reflection finds, in the value of slot e, a struct with a valid,
\* non-zero field named Column that holds a clause.Column (an AndConditions,
\* OrConditions or NotConditions struct has no such field)
HasColumn(st, e) ==
    /\ e.tag = "Leaf"
    /\ st.objs[e.ref].kind = "struct"
    /\ st.objs[e.ref].ft = "Column"

\* the default case writing through to the box the slot points to
RewriteLeafInPlace(st, arr, idx) ==
    LET e == st.heap[arr][idx]
    IN  IF HasColumn(st, e)
        THEN [st EXCEPT !.objs[e.ref].table = ""]
        ELSE st

\* the default case, on slot idx of list arr: the struct is copied, the copy's
\* Column gets an empty Table, and the slot is set to the copy
RewriteLeaf(st, arr, idx) ==
    LET e == st.heap[arr][idx]
    IN  IF HasColumn(st, e)
        THEN [heap |-> [st.heap EXCEPT ![arr][idx] =
                            Slot("Leaf", Len(st.objs) + 1)],
              objs |-> Append(st.objs, [st.objs[e.ref] EXCEPT !.table = ""])]
        ELSE st

RECURSIVE ModifyExprsFrom(_, _, _)
\* the loop of modifyExprs over list arr, from index idx on
ModifyExprsFrom(st, arr, idx) ==
    IF idx > Len(st.heap[arr]) THEN st
    ELSE LET expr == st.heap[arr][idx]
             st1  == IF expr.tag \in CompositeTags
                     THEN ModifyExprsFrom(st, expr.ref, 1)
                     ELSE RewriteLeaf(st, arr, idx)
         IN  ModifyExprsFrom(st1, arr, idx + 1)

modifyExprs(st, arr) == ModifyExprsFrom(st, arr, 1)

modifyStatementWhereConds(st) ==
    IF whereKind = "Where" THEN modifyExprs(st, WhereRoot) ELSE st

-----------------------------------------------------------------------------
(* The clause builders                                                     *)

\* clause.Clause.Build of a clause with an expression: the name and a space
\* when the name is not empty, then the expression
ClauseBuild(name, expr) ==
    (IF name # "" THEN <<name, " ">> ELSE <<>>) \o <<expr>>

\* the table written when addedTable is never set
TableTextTwice ==
    (IF hasFrom THEN ClauseBuild("", "<from>") ELSE <<>>)
        \o <<"<quoted current table>">>

\* the table of the mutation: the FROM clause with its name cleared, or the
\* quoted current table when no table was added
TableText ==
    LET addedTable == hasFrom
    IN  (IF hasFrom THEN ClauseBuild("", "<from>") ELSE <<>>)
          \o (IF ~addedTable THEN <<"<quoted current table>">> ELSE <<>>)

\* the "DELETE" and "UPDATE" builders, which differ in the keyword only; the
\* builder is the *gorm.Statement
MutationBuilder(k, keyword) ==
    /\ pc = "new"
    /\ LET st == modifyStatementWhereConds([heap |-> heap, objs |-> objs])
       IN  /\ heap' = st.heap
           /\ objs' = st.objs
    /\ out' = out \o <<"ALTER TABLE ">> \o TableText \o <<keyword>>
    /\ pc' = "built"
    /\ key' = k
    /\ UNCHANGED <<hasFrom, whereKind, heap0, objs0>>
    /\ UNCHANGED <<initVars, dtVars, quoteVars>>

DeleteBuilder == MutationBuilder("DELETE", " DELETE")

UpdateBuilder == MutationBuilder("UPDATE", " UPDATE")

RewriteInit ==
    /\ \E k \in LeafKinds : objs = <<QualifiedLeaf, LeafOfKind(k)>>
    /\ \E tg \in [ArrayIds \ {WhereRoot} -> Tags] :
         \/ /\ whereKind = "Where"
            /\ heap \in HeapsFrom(WhereRoot, MaxSlots, tg)
         \/ /\ whereKind \in {"absent", "other"}
            /\ heap \in HeapsFrom(WhereRoot, MaxSlots - 2, tg)
    /\ hasFrom \in BOOLEAN
    /\ pc = "new"
    /\ key = ""
    /\ out = <<>>
    /\ heap0 = heap
    /\ objs0 = objs

-----------------------------------------------------------------------------
(* Initialize                                                              *)

Digits == <<"0", "1", "2", "3", "4", "5", "6", "7", "8", "9">>

IsDigit(c) == \E i \in 1..Len(Digits) : Digits[i] = c

DigitVal(c) == (CHOOSE i \in 1..Len(Digits) : Digits[i] = c) - 1

RECURSIVE SplitAt(_, _, _)
\* strings.Split(s, sep) for a separator of one byte: cur is the segment read
\* so far
SplitAt(s, sep, cur) ==
    IF s = <<>> THEN <<cur>>
    ELSE IF Head(s) = sep THEN <<cur>> \o SplitAt(Tail(s), sep, <<>>)
    ELSE SplitAt(Tail(s), sep, Append(cur, Head(s)))

Split(s, sep) == SplitAt(s, sep, <<>>)

RECURSIVE Atoi(_, _)
\* the number a sequence of digits writes, acc being the digits read so far
Atoi(s, acc) ==
    IF s = <<>> THEN acc ELSE Atoi(Tail(s), 10 * acc + DigitVal(Head(s)))

\* the nil *Version
NilVersion == [ok |-> FALSE, segments |-> <<>>]

\* version.NewVersion on the strings without prerelease or metadata: an
\* optional "v", then numbers separated by dots, padded to three segments; any
\* other string gives nil and an error
NewVersion(s) ==
    LET body  == IF s # <<>> /\ Head(s) = "v" THEN Tail(s) ELSE s
        parts == Split(body, ".")
    IN  IF \A i \in 1..Len(parts) :
              parts[i] # <<>> /\ \A j \in 1..Len(parts[i]) : IsDigit(parts[i][j])
        THEN LET segs == [i \in 1..Len(parts) |-> Atoi(parts[i], 0)]
             IN  [ok |-> TRUE,
                  segments |-> segs \o [i \in 1..(3 - Len(segs)) |-> 0]]
        ELSE NilVersion

\* segment i of a version, zero beyond its last segment
Segment(v, i) == IF i <= Len(v.segments) THEN v.segments[i] ELSE 0

\* Version.Compare(c) < 0 for versions without prerelease
LessThan(v, c) ==
    LET n == IF Len(v.segments) < Len(c.segments)
             THEN Len(c.segments) ELSE Len(v.segments)
    IN  \E i \in 1..n :
          /\ Segment(v, i) < Segment(c, i)
          /\ \A j \in 1..(i - 1) : Segment(v, j) = Segment(c, j)

\* the constraint "< 20.4"
versionNoRenameColumn == NewVersion(<<"2", "0", ".", "4">>)

\* the flag as a version check that assigns its result
RenameFlagAssigned(flag, below) == below

\* DontSupportRenameColumn after the version check: set when the check
\* passes, left alone otherwise
RenameFlag(flag, below) == IF below THEN TRUE ELSE flag

\* the option fields after their defaults are assigned
WithDefaults(c) ==
    [c EXCEPT !.DriverName = IF @ = "" THEN "clickhouse" ELSE @,
              !.DefaultGranularity = IF @ = 0 THEN 3 ELSE @]

BuilderKeys == {"DELETE", "UPDATE", "SET"}

Initialize ==
    /\ ret = ""
    /\ LET c1 == WithDefaults(config)
           opened == c1.Conn \/ ~openFails
           dbversion == NewVersion(vs)
       IN  IF ~opened
           THEN /\ ret' = "open error"
                /\ config' = c1
                /\ UNCHANGED <<connPool, builders>>
           ELSE /\ connPool' = IF c1.Conn THEN "Conn" ELSE "dbb"
                /\ IF c1.SkipInitializeWithVersion
                   THEN /\ ret' = "nil"
                        /\ config' = c1
                        /\ builders' = builders \cup BuilderKeys
                   ELSE IF queryFails
                   THEN /\ ret' = "query error"
                        /\ config' = c1
                        /\ UNCHANGED builders
                   ELSE IF ~dbversion.ok
                   THEN \* Constraints.Check dereferences the nil *Version
                        /\ ret' = "panic"
                        /\ config' = c1
                        /\ UNCHANGED builders
                   ELSE /\ ret' = "nil"
                        /\ config' =
                             [c1 EXCEPT !.DontSupportRenameColumn =
                                RenameFlag(@, LessThan(dbversion,
                                                       versionNoRenameColumn))]
                        /\ builders' = builders \cup BuilderKeys
    /\ UNCHANGED <<config0, openFails, queryFails, vs>>
    /\ UNCHANGED <<rwVars, dtVars, quoteVars>>

\* the version strings a server may answer
VersionStrings ==
    { <<>>,
      <<"x">>,
      <<"2", "0", ".", ".", "3">>,
      <<"1", ".", "1", ".", "5", "4">>,
      <<"1", "9", ".", "1", "7", ".", "6">>,
      <<"2", "0", ".", "3", ".", "1">>,
      <<"v", "2", "0", ".", "3">>,
      <<"2", "0", ".", "4">>,
      <<"2", "0", ".", "4", ".", "0", ".", "1">>,
      <<"2", "0", ".", "5", ".", "0">>,
      <<"2", "0", ".", "1", "2", ".", "3">>,
      <<"2", "1", ".", "8", ".", "3", ".", "4", "4">> }

InitializeIdle ==
    /\ config = [DriverName |-> "", Conn |-> FALSE,
                 DontSupportRenameColumn |-> FALSE,
                 SkipInitializeWithVersion |-> FALSE,
                 DefaultGranularity |-> 0]
    /\ config0 = config
    /\ openFails = FALSE
    /\ queryFails = FALSE
    /\ vs = <<>>
    /\ connPool = ""
    /\ builders = {}
    /\ ret = ""

InitializeInit ==
    /\ config \in [DriverName : {"", "clickhouse"}, Conn : BOOLEAN,
                    DontSupportRenameColumn : BOOLEAN,
                    SkipInitializeWithVersion : BOOLEAN,
                    DefaultGranularity : {0, 8}]
    /\ config0 = config
    /\ openFails \in BOOLEAN
    /\ queryFails \in BOOLEAN
    /\ vs \in VersionStrings
    /\ connPool = ""
    /\ builders = {}
    /\ ret = ""

RewriteIdle ==
    /\ objs = <<QualifiedLeaf>>
    /\ heap = [a \in ArrayIds |-> <<>>]
    /\ whereKind = "absent"
    /\ hasFrom = FALSE
    /\ pc = "idle"
    /\ key = ""
    /\ out = <<>>
    /\ heap0 = heap
    /\ objs0 = objs

-----------------------------------------------------------------------------
(* DataTypeOf                                                              *)

\* bounds of the field descriptors
MaxSize == 65

MaxPrecision == 4

MaxScale == 2

\* schema.DataType values, and one the dialector does not know
DataTypes == {"bool", "int", "uint", "float", "string", "time", "bytes", "json"}

\* the size switch with < for <=
IntTypeStrict(size) ==
    IF size < 8 THEN "Int8"
    ELSE IF size < 16 THEN "Int16"
    ELSE IF size < 32 THEN "Int32"
    ELSE "Int64"

\* the size switch of the Int / Uint case
IntType(size) ==
    IF size <= 8 THEN "Int8"
    ELSE IF size <= 16 THEN "Int16"
    ELSE IF size <= 32 THEN "Int32"
    ELSE "Int64"

\* the Time case with no default precision
TimeTypeNoDefault(f, disable) ==
    [ret |-> IF ~disable /\ f.Precision > 0
             THEN "DateTime64" \o "(" \o ToString(f.Precision) \o ")"
             ELSE "DateTime64",
     field |-> f]

\* the Time case assigning the default precision before it reads the flag
TimeTypeDefaultFirst(f, disable) ==
    LET f1 == IF f.Precision = 0 THEN [f EXCEPT !.Precision = 3] ELSE f
    IN  [ret |-> IF ~disable /\ f1.Precision > 0
                 THEN "DateTime64" \o "(" \o ToString(f1.Precision) \o ")"
                 ELSE "DateTime64",
         field |-> f1]

\* the Time case: the string returned and the field as the case leaves it
TimeType(f, disable) ==
    IF ~disable
    THEN LET f1 == IF f.Precision = 0 THEN [f EXCEPT !.Precision = 3] ELSE f
         IN  [ret |-> IF f1.Precision > 0
                      THEN "DateTime64" \o "(" \o ToString(f1.Precision) \o ")"
                      ELSE "DateTime64",
              field |-> f1]
    ELSE [ret |-> "DateTime64", field |-> f]

\* DataTypeOf: the string returned and the field as the call leaves it
DataTypeOf(f, disable) ==
    CASE f.DataType = "bool" -> [ret |-> "UInt8", field |-> f]
      [] f.DataType \in {"int", "uint"} ->
            [ret |-> IF f.DataType = "uint"
                     THEN "U" \o IntType(f.Size) ELSE IntType(f.Size),
             field |-> f]
      [] f.DataType = "float" ->
            [ret |-> IF f.Precision > 0
                     THEN "decimal(" \o ToString(f.Precision) \o ", "
                              \o ToString(f.Scale) \o ")"
                     ELSE IF f.Size <= 32 THEN "Float32" ELSE "Float64",
             field |-> f]
      [] f.DataType = "string" ->
            [ret |-> IF f.Size = 0 THEN "String"
                     ELSE "FixedString(" \o ToString(f.Size) \o ")",
             field |-> f]
      [] f.DataType = "bytes" -> [ret |-> "String", field |-> f]
      [] f.DataType = "time" -> TimeType(f, disable)
      [] OTHER -> [ret |-> f.DataType, field |-> f]

CallDataTypeOf ==
    /\ ~typed
    /\ LET r == DataTypeOf(field, DisableDatetimePrecision)
       IN  /\ sqlType' = r.ret
           /\ field' = r.field
    /\ typed' = TRUE
    /\ UNCHANGED <<field0, DisableDatetimePrecision>>
    /\ UNCHANGED <<rwVars, initVars, quoteVars>>

DataTypeInit ==
    /\ field \in [DataType : DataTypes, Size : -1..MaxSize,
                  Precision : -1..MaxPrecision, Scale : 0..MaxScale]
    /\ field0 = field
    /\ DisableDatetimePrecision \in BOOLEAN
    /\ sqlType = ""
    /\ typed = FALSE

DataTypeIdle ==
    /\ field = [DataType |-> "", Size |-> 0, Precision |-> 0, Scale |-> 0]
    /\ field0 = field
    /\ DisableDatetimePrecision = FALSE
    /\ sqlType = ""
    /\ typed = FALSE

-----------------------------------------------------------------------------
(* QuoteTo                                                                 *)

\* longest identifier
MaxStrLen == 5

\* the byte 0x60, the backtick, which a TLA+ string cannot hold
Backtick == "BACKTICK"

Bytes == {"a", "b", "c", ".", Backtick}

Contains(s, c) == \E i \in 1..Len(s) : s[i] = c

\* QuoteTo quoting the whole string whatever it holds
QuoteToWhole(w, s) == Append(Append(w, Backtick) \o s, Backtick)

RECURSIVE WriteSegments(_, _, _)
\* the loop over the segments, from index idx (from 1) on
WriteSegments(w, segs, idx) ==
    IF idx > Len(segs) THEN w
    ELSE LET w1 == IF idx > 1 THEN w \o <<".", Backtick>> ELSE w
         IN  WriteSegments(Append(w1 \o segs[idx], Backtick), segs, idx + 1)

\* the bytes in the writer after QuoteTo(writer, s)
QuoteTo(w, s) ==
    LET w1 == Append(w, Backtick)
    IN  IF Contains(s, ".")
        THEN WriteSegments(w1, Split(s, "."), 1)
        ELSE Append(w1 \o s, Backtick)

CallQuoteTo ==
    /\ ~quoted
    /\ writer' = QuoteTo(writer, str)
    /\ quoted' = TRUE
    /\ UNCHANGED str
    /\ UNCHANGED <<rwVars, initVars, dtVars>>

QuoteInit ==
    /\ str \in UNION {ListsOf(Bytes, n) : n \in 0..MaxStrLen}
    /\ writer = <<>>
    /\ quoted = FALSE

QuoteIdle ==
    /\ str = <<>>
    /\ writer = <<>>
    /\ quoted = FALSE

-----------------------------------------------------------------------------
(* The specifications                                                      *)

Init == RewriteInit /\ InitializeIdle /\ DataTypeIdle /\ QuoteIdle

Next == DeleteBuilder \/ UpdateBuilder

Spec == Init /\ [][Next]_vars

InitInitialize == RewriteIdle /\ InitializeInit /\ DataTypeIdle /\ QuoteIdle

NextInitialize == Initialize

SpecInitialize == InitInitialize /\ [][NextInitialize]_vars

InitDataType == RewriteIdle /\ InitializeIdle /\ DataTypeInit /\ QuoteIdle

NextDataType == CallDataTypeOf

SpecDataType == InitDataType /\ [][NextDataType]_vars

InitQuote == RewriteIdle /\ InitializeIdle /\ DataTypeIdle /\ QuoteInit

NextQuote == CallQuoteTo

SpecQuote == InitQuote /\ [][NextQuote]_vars

-----------------------------------------------------------------------------
(* The statement trees, as values                                          *)

NoLeaf == Leaf("", "absent", "", "", 0)

RECURSIVE TreeOf(_, _, _)
\* the tree under child list arr of heap h with boxes o: a sequence of nodes
TreeOf(h, o, arr) ==
    [i \in 1..Len(h[arr]) |->
        LET e == h[arr][i]
        IN  IF e.tag = "Leaf"
            THEN [tag |-> "Leaf", leaf |-> o[e.ref], kids |-> <<>>]
            ELSE [tag |-> e.tag, leaf |-> NoLeaf, kids |-> TreeOf(h, o, e.ref)]]

RECURSIVE Unqualified(_)
\* tree t with the table cleared on every leaf that is a struct whose Column
\* is a clause.Column, and nothing else changed
Unqualified(t) ==
    [i \in 1..Len(t) |->
        IF t[i].tag = "Leaf"
        THEN IF t[i].leaf.kind = "struct" /\ t[i].leaf.ft = "Column"
             THEN [t[i] EXCEPT !.leaf.table = ""]
             ELSE t[i]
        ELSE [t[i] EXCEPT !.kids = Unqualified(t[i].kids)]]

RECURSIVE TablesOf(_)
\* the table qualifiers of the leaves of tree t, in place
TablesOf(t) ==
    [i \in 1..Len(t) |->
        IF t[i].tag = "Leaf" THEN <<t[i].leaf.table>> ELSE TablesOf(t[i].kids)]

RECURSIVE Reach(_, _)
\* the child lists of the tree under list arr, arr included
Reach(h, arr) ==
    {arr} \cup UNION {Reach(h, h[arr][i].ref) :
                        i \in {j \in 1..Len(h[arr]) : h[arr][j].tag # "Leaf"}}

\* the AND / OR / NOT nodes of the tree under list arr
NodesOf(h, arr) ==
    {e \in UNION {{h[a][i] : i \in 1..Len(h[a])} : a \in Reach(h, arr)} :
        e.tag # "Leaf"}

Built == pc = "built"

Rewritten == Built /\ whereKind = "Where"

\* C1: after the DELETE or UPDATE builder has run on a statement whose WHERE
\* clause is a clause.Where, the WHERE tree is the original tree with the table
\* cleared on every leaf that carries a clause.Column, and is otherwise the
\* same: the same nodes, the same leaf order, the same names and values, and
\* the leaves without such a column unchanged.
C1_WhereTreeUnqualified ==
    Rewritten =>
        TreeOf(heap, objs, WhereRoot)
            = Unqualified(TreeOf(heap0, objs0, WhereRoot))

\* a rewritten tree with a qualified leaf two levels down, under a NOT node,
\* beside which the tree holds a leaf that is not rewritten
C1_Witness ==
    /\ Rewritten
    /\ \E i \in 1..Len(heap0[1]) :
         /\ heap0[1][i].tag \in {"And", "Or"}
         /\ \E j \in 1..Len(heap0[heap0[1][i].ref]) :
              LET e == heap0[heap0[1][i].ref][j]
              IN  /\ e.tag = "Not"
                  /\ Len(heap0[e.ref]) > 0
                  /\ heap0[e.ref][1] = Slot("Leaf", 1)
    /\ TreeOf(heap, objs, WhereRoot) # TreeOf(heap0, objs0, WhereRoot)
    /\ \E a \in Reach(heap0, WhereRoot) : \E i \in 1..Len(heap0[a]) :
         /\ heap0[a][i] = Slot("Leaf", 2)
         /\ objs0[2].ft # "Column"

\* the table the builder is to write
ExpectedTable == IF hasFrom THEN "<from>" ELSE "<quoted current table>"

\* C2: the DELETE builder writes exactly 'ALTER TABLE ', one table and
\* ' DELETE', the UPDATE builder the same with ' UPDATE'; the table is the FROM
\* clause without its name when the statement has one and the quoted current
\* table otherwise, written once.
C2_MutationText ==
    Built =>
        /\ key = "DELETE" => out = <<"ALTER TABLE ", ExpectedTable, " DELETE">>
        /\ key = "UPDATE" => out = <<"ALTER TABLE ", ExpectedTable, " UPDATE">>
        /\ key \in {"DELETE", "UPDATE"}

\* an UPDATE built on a statement with a FROM clause
C2_Witness == Built /\ key = "UPDATE" /\ hasFrom /\ Len(out) = 3

\* the child list o heads a tree that shares an AND / OR / NOT node with the
\* WHERE tree of the statement
SharesNode(o) ==
    /\ o # WhereRoot
    /\ whereKind = "Where"
    /\ \E e \in NodesOf(heap0, o) :
         /\ e.tag \in Tags
         /\ e \in NodesOf(heap0, WhereRoot)

\* C3: when another statement's tree shares an AND / OR / NOT node with the
\* statement the builder runs on, every leaf reachable from the other
\* statement keeps the table qualifier it had.
C3_NoCrossStatementCorruption ==
    \A o \in ArrayIds :
        SharesNode(o) =>
            TablesOf(TreeOf(heap, objs, o)) = TablesOf(TreeOf(heap0, objs0, o))

\* the child list o heads a tree with no child list in common with the WHERE
\* tree of the statement
Unrelated(o) == Reach(heap0, o) \cap Reach(heap0, WhereRoot) = {}

\* C4: rewriting replaces each leaf of the statement that carries a
\* clause.Column by a fresh copy with the table cleared, and writes to no box
\* and to no list of an unrelated statement: a predicate held by both keeps
\* its table in the other statement.
C4_CopyNotMutate ==
    Rewritten =>
        /\ \A b \in 1..Len(objs0) : objs[b] = objs0[b]
        /\ \A o \in ArrayIds :
             Unrelated(o) => \A a \in Reach(heap0, o) : heap[a] = heap0[a]
        /\ \A a \in Reach(heap0, WhereRoot) : \A i \in 1..Len(heap0[a]) :
             HasColumn([heap |-> heap0, objs |-> objs0], heap0[a][i]) =>
                /\ heap[a][i].tag = "Leaf"
                /\ heap[a][i].ref > Len(objs0)
                /\ objs[heap[a][i].ref]
                     = [objs0[heap0[a][i].ref] EXCEPT !.table = ""]

\* the qualified leaf is in the statement's WHERE list and in the list of an
\* unrelated statement, and the statement has been rewritten
C4_Witness ==
    /\ Rewritten
    /\ heap0[WhereRoot][1] = Slot("Leaf", 1)
    /\ \E o \in ArrayIds :
         /\ Unrelated(o)
         /\ Len(heap0[o]) > 0
         /\ heap0[o][1] = Slot("Leaf", 1)
         /\ heap[o][1] = Slot("Leaf", 1)
         /\ objs[1].table = "t"
    /\ objs[heap[WhereRoot][1].ref].table = ""

-----------------------------------------------------------------------------
(* Initialize and the version check                                        *)

\* Initialize returned nil after the version check ran on a parsed version
Negotiated ==
    /\ ret = "nil"
    /\ ~config0.SkipInitializeWithVersion
    /\ NewVersion(vs).ok

BelowRename == LessThan(NewVersion(vs), versionNoRenameColumn)

\* C5 as stated: after Initialize with the version check not skipped, the flag
\* is true for a version below 20.4 and false for a version of 20.4 or above,
\* whatever the configuration held.
C5_FlagFollowsVersion ==
    Negotiated => config.DontSupportRenameColumn = BelowRename

\* C5 as amended: the flag is true for a version below 20.4; for 20.4 or above
\* it keeps the value the configuration held (false unless configured true).
C5_FlagRaisedOnly ==
    Negotiated =>
        /\ config.DontSupportRenameColumn
             = (config0.DontSupportRenameColumn \/ BelowRename)
        /\ vs = <<"2", "0", ".", "3", ".", "1">>
             => config.DontSupportRenameColumn
        /\ vs \in {<<"2", "0", ".", "5", ".", "0">>, <<"2", "0", ".", "4">>,
                   <<"2", "0", ".", "1", "2", ".", "3">>}
             => config.DontSupportRenameColumn = config0.DontSupportRenameColumn

\* the server answers 20.5.0 to a dialector configured with the flag set, and
\* the flag is still set after Initialize
C5_Witness ==
    /\ Negotiated
    /\ vs = <<"2", "0", ".", "5", ".", "0">>
    /\ config0.DontSupportRenameColumn
    /\ config.DontSupportRenameColumn

\* the connection is opened: configured, or sql.Open succeeds
Opened == config0.Conn \/ ~openFails

\* the version query is run and succeeds
QueryAnswered ==
    Opened /\ ~config0.SkipInitializeWithVersion /\ ~queryFails

\* C6: Initialize fails exactly when opening the connection or running the
\* version query fails, and returns that error; when the query answers an
\* empty or unparsable version string, Initialize runs to its end, registers
\* the DELETE, UPDATE and SET builders and returns nil.
C6_OnlyConnectivityIsFatal ==
    ret # "" =>
        /\ ret = "open error" <=> ~Opened
        /\ ret = "query error"
             <=> (Opened /\ ~config0.SkipInitializeWithVersion /\ queryFails)
        /\ (QueryAnswered /\ ~NewVersion(vs).ok)
             => (ret = "nil" /\ BuilderKeys \subseteq builders)

-----------------------------------------------------------------------------
(* DataTypeOf                                                              *)

\* the integer type of the rule table for a size in 1..64
RuleInt(size) ==
    CASE size \in 1..8   -> "Int8"
      [] size \in 9..16  -> "Int16"
      [] size \in 17..32 -> "Int32"
      [] size \in 33..64 -> "Int64"

\* C7: for a field of a kind other than time, DataTypeOf returns the type of
\* the rule table: UInt8 for bool; Int8, Int16, Int32, Int64 for int of size
\* 1..8, 9..16, 17..32, 33..64, and the same after a 'U' for uint;
\* decimal(precision, scale) for float with precision > 0 whatever the size,
\* otherwise Float32 up to size 32 and Float64 above; String for string of
\* size 0 and FixedString(N) for size N > 0; String for bytes; the kind itself
\* for any other kind.
C7_RuleTable ==
    (typed /\ field0.DataType # "time") =>
        LET f == field0
        IN  /\ f.DataType = "bool" => sqlType = "UInt8"
            /\ (f.DataType = "int" /\ f.Size \in 1..64)
                 => sqlType = RuleInt(f.Size)
            /\ (f.DataType = "uint" /\ f.Size \in 1..64)
                 => sqlType = "U" \o RuleInt(f.Size)
            /\ (f.DataType = "float" /\ f.Precision > 0)
                 => sqlType = "decimal(" \o ToString(f.Precision) \o ", "
                                 \o ToString(f.Scale) \o ")"
            /\ (f.DataType = "float" /\ f.Precision <= 0 /\ f.Size <= 32)
                 => sqlType = "Float32"
            /\ (f.DataType = "float" /\ f.Precision <= 0 /\ f.Size > 32)
                 => sqlType = "Float64"
            /\ (f.DataType = "string" /\ f.Size = 0) => sqlType = "String"
            /\ (f.DataType = "string" /\ f.Size > 0)
                 => sqlType = "FixedString(" \o ToString(f.Size) \o ")"
            /\ f.DataType = "bytes" => sqlType = "String"
            /\ f.DataType = "json" => sqlType = "json"
            /\ sqlType # ""

\* an unsigned field of size 32 has been typed UInt32, at the edge of its range
C7_Witness ==
    /\ typed
    /\ field0.DataType = "uint"
    /\ field0.Size = 32
    /\ sqlType = "UInt32"

TimeTyped == typed /\ field0.DataType = "time"

\* C8 as stated: with the flag unset a time field gives DateTime64(p) for
\* every precision p other than 0 and DateTime64(3) for precision 0; with the
\* flag set it gives DateTime64 whatever the precision.
C8_TimeAnyPrecision ==
    TimeTyped =>
        IF DisableDatetimePrecision THEN sqlType = "DateTime64"
        ELSE IF field0.Precision = 0 THEN sqlType = "DateTime64(3)"
        ELSE sqlType = "DateTime64(" \o ToString(field0.Precision) \o ")"

\* C8 as amended: with the flag unset a time field gives DateTime64(p) for
\* every precision p > 0, DateTime64(3) for precision 0 and DateTime64 with no
\* parameter for a negative precision; with the flag set it gives DateTime64
\* whatever the precision.
C8_TimePositivePrecision ==
    TimeTyped =>
        IF DisableDatetimePrecision THEN sqlType = "DateTime64"
        ELSE IF field0.Precision = 0 THEN sqlType = "DateTime64(3)"
        ELSE IF field0.Precision > 0
             THEN sqlType = "DateTime64(" \o ToString(field0.Precision) \o ")"
             ELSE sqlType = "DateTime64"

\* a time field of negative precision typed with the flag unset
C8_Witness ==
    /\ TimeTyped
    /\ ~DisableDatetimePrecision
    /\ field0.Precision < 0
    /\ sqlType = "DateTime64"

-----------------------------------------------------------------------------
(* QuoteTo                                                                 *)

RECURSIVE DotsQuoted(_)
\* s with a backtick written before and after each of its dots
DotsQuoted(s) ==
    IF s = <<>> THEN <<>>
    ELSE (IF Head(s) = "." THEN <<Backtick, ".", Backtick>> ELSE <<Head(s)>>)
            \o DotsQuoted(Tail(s))

RECURSIVE Count(_, _)
\* how many times byte c is in s
Count(s, c) ==
    IF s = <<>> THEN 0
    ELSE (IF Head(s) = c THEN 1 ELSE 0) + Count(Tail(s), c)

====
